---------------------------- MODULE Spec2Model ----------------------------
(***************************************************************************)
(* Model of daily-briefing.py: the daily market briefing pipeline.         *)
(*                                                                         *)
(*   daily_job:  build_prompt -> get_market_briefing_data -> render ->     *)
(*               send_email (a loop of at most 5 SMTP attempts with        *)
(*               exponential backoff).                                     *)
(*                                                                         *)
(* Every variable is a function of the run (one call of daily_job): the    *)
(* program keeps no state between runs.  The external collaborators (the   *)
(* chat-completions call, the Jinja template, the SMTP server) are the     *)
(* environment: each of their calls returns or raises, chosen by \E.       *)
(* trace, open and nsess are history variables of what the run did to the  *)
(* outside world; log is what the run wrote to its logger.                 *)
(***************************************************************************)
EXTENDS Integers, Sequences, FiniteSets, TLC

\* ------------------------------------------------------------------------
\* Configuration (module-level constants of the script)
\* ------------------------------------------------------------------------

WATCHLIST_UNIVERSE == <<"MSFT", "NVDA", "ETN", "LLY", "NOC", "MA", "ANET", "CRWD">>

\* The keys of OPEN_POSITIONS, in insertion order (entry prices are not
\* read by any step modelled here other than build_prompt).
OPEN_POSITIONS == <<"NVDA", "MSFT", "ANET">>

\* RISK_LOWER, RISK_UPPER as build_prompt prints them (one decimal).
RISK_LOWER == "5.5"

RISK_UPPER == "7.0"

EMAIL_USER == "sender"

\* EMAIL_TO defaults to EMAIL_USER.
EMAIL_TO == EMAIL_USER

\* A loop over range(6): one attempt too many.
MaxAttemptsOffByOne == 5 + 1

\* range(5) in send_email
MaxAttempts == 5

\* os.getenv(name): None when the variable is unset, else its string.
Unset == [set |-> FALSE, value |-> ""]

Present(v) == [set |-> TRUE, value |-> v]

\* The required variables, in the order lines 63-65 check them.
RequiredEnv == <<"OPENAI_API_KEY", "EMAIL_USER", "GMAIL_APP_PASSWORD">>

\* The environments a process may be started in (lines 25-27): each required
\* variable unset, empty or set.
Configs ==
    [OPENAI_API_KEY : {Unset, Present(""), Present("key")},
     EMAIL_USER : {Unset, Present(""), Present(EMAIL_USER)},
     GMAIL_APP_PASSWORD : {Unset, Present(""), Present("app-password")}]

\* The globals once lines 63-65 have passed.
ValidConfig ==
    [OPENAI_API_KEY |-> Present("key"),
     EMAIL_USER |-> Present(EMAIL_USER),
     GMAIL_APP_PASSWORD |-> Present("app-password")]

\* A check that lets the empty string through (value is None).
MissingOnlyWhenUnset(value) == ~value.set

\* line 59: not value
Missing(value) == ~value.set \/ value.value = ""

\* ------------------------------------------------------------------------
\* Bounds of the model
\* ------------------------------------------------------------------------

\* datetime.now(PHT) is drawn from the days 1..NumDates.
NumDates == 1

Dates == 1..NumDates

\* The runs of the specification Spec: one call of daily_job.
Runs == {"run1"}

\* ------------------------------------------------------------------------
\* Values
\* ------------------------------------------------------------------------

Range(s) == {s[i] : i \in DOMAIN s}

\* Python's None for the variables that hold a document, report or message.
None == [none |-> TRUE]

\* No exception bound / no exception in flight.
NoError == [kind |-> "none", at |-> "", n |-> 0]

\* The exception object a failing external call raises: which call raised
\* it (at) and in which delivery attempt (n, 1-based; 0 outside send_email).
Exc(kind, at, n) == [kind |-> kind, at |-> at, n |-> n]

\* The documents the model may answer with (what json.loads returns for a
\* parseable response): the tickers of "watchlist" and of "open_positions",
\* and whether the required key "reminders" is present.
Doc(w, o, rem) == [watchlist |-> w, open_positions |-> o, reminders |-> rem]

ValidDoc == Doc(<<"MSFT", "NVDA">>, <<"NVDA">>, TRUE)

ForeignWatchDoc == Doc(<<"TSLA">>, <<"NVDA">>, TRUE)

ForeignPositionDoc == Doc(<<"MSFT">>, <<"TSLA">>, TRUE)

MissingFieldDoc == Doc(<<"MSFT">>, <<"NVDA">>, FALSE)

Docs == {ValidDoc, ForeignWatchDoc, ForeignPositionDoc, MissingFieldDoc}

\* response.choices[0].message.content: a string that is JSON for a
\* document, or a string that is not JSON at all.
Responses == {[json |-> TRUE, doc |-> d] : d \in Docs}
                \cup {[json |-> FALSE, doc |-> None]}

\* The ticker-membership invariant of the BriefingDocument.
TickersInUniverse(d) ==
    /\ Range(d.watchlist) \subseteq Range(WATCHLIST_UNIVERSE)
    /\ Range(d.open_positions) \subseteq Range(OPEN_POSITIONS)

\* ------------------------------------------------------------------------
\* State
\* ------------------------------------------------------------------------

VARIABLES
    pc,           \* position of each run in daily_job / its callees
    config,       \* the module globals read from the environment
    now_pht,      \* daily_job: now_pht
    prompt,       \* daily_job: prompt
    content,      \* get_market_briefing_data: json_string
    data,         \* daily_job: data
    html_report,  \* daily_job: html_report
    msg,          \* send_email: msg
    attempt,      \* send_email: the loop variable
    server,       \* send_email: the SMTP session bound by the with statement
    e,            \* the exception bound by the except clause being handled
    delay,        \* send_email: delay
    err,          \* the exception that ended the run
    log,          \* the records written to logger
    open,         \* the SMTP sessions of the run that are connected
    nsess,        \* the number of SMTP sessions the run has created
    trace         \* the external calls of the run, in order

vars == <<pc, config, now_pht, prompt, content, data, html_report, msg, attempt,
          server, e, delay, err, log, open, nsess, trace>>

\* One external call: its name, the delivery attempt it belongs to (1-based,
\* 0 outside send_email), the session it acted on (0: none), whether it
\* returned (ok) or raised, and the duration of a sleep.
Ev(ev, n, s, ok, d) == [ev |-> ev, n |-> n, s |-> s, ok |-> ok, d |-> d]

\* One logger record.
LogRec(level, text, n, d) == [level |-> level, text |-> text, n |-> n, d |-> d]

Upd(f, r, v) == [f EXCEPT ![r] = v]

Emit(r, event) == trace' = Upd(trace, r, Append(trace[r], event))

Logged(r, rec) == log' = Upd(log, r, Append(log[r], rec))

InitFor(R) ==
    /\ pc = [r \in R |-> "Idle"]
    /\ config = [r \in R |-> ValidConfig]
    /\ now_pht = [r \in R |-> 0]
    /\ prompt = [r \in R |-> None]
    /\ content = [r \in R |-> None]
    /\ data = [r \in R |-> None]
    /\ html_report = [r \in R |-> None]
    /\ msg = [r \in R |-> None]
    /\ attempt = [r \in R |-> 0]
    /\ server = [r \in R |-> 0]
    /\ e = [r \in R |-> NoError]
    /\ delay = [r \in R |-> 0]
    /\ err = [r \in R |-> NoError]
    /\ log = [r \in R |-> <<>>]
    /\ open = [r \in R |-> {}]
    /\ nsess = [r \in R |-> 0]
    /\ trace = [r \in R |-> <<>>]

Init == InitFor(Runs)

\* ------------------------------------------------------------------------
\* Startup (module level, lines 25-65)
\* ------------------------------------------------------------------------

\* A process as it is started: the environment is any of Configs and the
\* checks of lines 63-65 are still to run.
InitStartup ==
    /\ pc = [r \in Runs |-> "Startup"]
    /\ config \in [Runs -> Configs]
    /\ now_pht = [r \in Runs |-> 0]
    /\ prompt = [r \in Runs |-> None]
    /\ content = [r \in Runs |-> None]
    /\ data = [r \in Runs |-> None]
    /\ html_report = [r \in Runs |-> None]
    /\ msg = [r \in Runs |-> None]
    /\ attempt = [r \in Runs |-> 0]
    /\ server = [r \in Runs |-> 0]
    /\ e = [r \in Runs |-> NoError]
    /\ delay = [r \in Runs |-> 0]
    /\ err = [r \in Runs |-> NoError]
    /\ log = [r \in Runs |-> <<>>]
    /\ open = [r \in Runs |-> {}]
    /\ nsess = [r \in Runs |-> 0]
    /\ trace = [r \in Runs |-> <<>>]

\* The required variables _require_env rejects, by their place in
\* RequiredEnv.
MissingEnv(c) == {i \in DOMAIN RequiredEnv : Missing(c[RequiredEnv[i]])}

\* lines 58-65: the three calls of _require_env return; line 235 is reached
\* and calls daily_job.
RequireEnvReturns(r) ==
    /\ pc[r] = "Startup"
    /\ MissingEnv(config[r]) = {}
    /\ pc' = Upd(pc, r, "Idle")
    /\ UNCHANGED <<config, now_pht, prompt, content, data, html_report, msg,
                   attempt, server, e, delay, err, log, open, nsess, trace>>

\* lines 58-65: the first call of _require_env whose value is missing
\* raises RuntimeError at import: the process ends before line 235.
RequireEnvRaises(r) ==
    /\ pc[r] = "Startup"
    /\ MissingEnv(config[r]) # {}
    /\ \E i \in MissingEnv(config[r]) :
          /\ \A j \in MissingEnv(config[r]) : i <= j
          /\ err' = Upd(err, r, [kind |-> "RuntimeError",
                                 text |-> "Missing required environment variable",
                                 context |-> NoError,
                                 var |-> RequiredEnv[i]])
    /\ pc' = Upd(pc, r, "ConfigError")
    /\ UNCHANGED <<config, now_pht, prompt, content, data, html_report, msg,
                   attempt, server, e, delay, log, open, nsess, trace>>

\* ------------------------------------------------------------------------
\* build_prompt
\* ------------------------------------------------------------------------

\* A prompt dated by a clock read inside build_prompt instead of by its
\* argument; the clock is the number of runs that have started.
build_prompt_clock(now) ==
    [date |-> now + Cardinality({q \in DOMAIN pc : pc[q] # "Idle"}),
     watchlist |-> WATCHLIST_UNIVERSE,
     open_positions |-> OPEN_POSITIONS,
     risk |-> <<RISK_LOWER, RISK_UPPER>>,
     universe |-> WATCHLIST_UNIVERSE]

\* The prompt: the date line and the literal configuration it embeds.
build_prompt(now) ==
    [date |-> now,
     watchlist |-> WATCHLIST_UNIVERSE,
     open_positions |-> OPEN_POSITIONS,
     risk |-> <<RISK_LOWER, RISK_UPPER>>,
     universe |-> WATCHLIST_UNIVERSE]

\* daily_job, lines 219-222: now_pht = datetime.now(PHT); prompt = ...
BuildPrompt(r) ==
    /\ pc[r] = "Idle"
    /\ \E d \in Dates :
          /\ now_pht' = Upd(now_pht, r, d)
          /\ prompt' = Upd(prompt, r, build_prompt(d))
    /\ pc' = Upd(pc, r, "PromptBuilt")
    /\ Emit(r, Ev("build_prompt", 0, 0, TRUE, 0))
    /\ UNCHANGED <<config, content, data, html_report, msg, attempt, server, e, delay,
                   err, log, open, nsess>>

\* ------------------------------------------------------------------------
\* get_market_briefing_data
\* ------------------------------------------------------------------------

\* line 129-130: the info record, the client; the call is next.
FetchBegin(r) ==
    /\ pc[r] = "PromptBuilt"
    /\ Logged(r, LogRec("INFO", "Requesting market briefing JSON", 0, 0))
    /\ pc' = Upd(pc, r, "fetch_call")
    /\ UNCHANGED <<config, now_pht, prompt, content, data, html_report, msg, attempt,
                   server, e, delay, err, open, nsess, trace>>

\* lines 132-140: the chat-completions call returns a response.
ModelCallReturns(r) ==
    /\ pc[r] = "fetch_call"
    /\ \E resp \in Responses : content' = Upd(content, r, resp)
    /\ Emit(r, Ev("model_call", 0, 0, TRUE, 0))
    /\ pc' = Upd(pc, r, "fetch_parse")
    /\ UNCHANGED <<config, now_pht, prompt, data, html_report, msg, attempt, server,
                   e, delay, err, log, open, nsess>>

\* lines 132-139, 142: the call raises (network, auth, rate limit).
ModelCallRaises(r) ==
    /\ pc[r] = "fetch_call"
    /\ Emit(r, Ev("model_call", 0, 0, FALSE, 0))
    /\ e' = Upd(e, r, Exc("APIError", "model_call", 0))
    /\ pc' = Upd(pc, r, "fetch_except")
    /\ UNCHANGED <<config, now_pht, prompt, content, data, html_report, msg, attempt,
                   server, delay, err, log, open, nsess>>

\* line 141: json.loads(json_string) returns the document, which
\* get_market_briefing_data returns as it is and daily_job binds to data.
ParseReturns(r) ==
    /\ pc[r] = "fetch_parse"
    /\ content[r].json
    /\ data' = Upd(data, r, content[r].doc)
    /\ pc' = Upd(pc, r, "Fetched")
    /\ UNCHANGED <<config, now_pht, prompt, content, html_report, msg, attempt,
                   server, e, delay, err, log, open, nsess, trace>>

\* A fetcher that calls the model again when the response does not parse.
ParseRaisesRetries(r) ==
    /\ pc[r] = "fetch_parse"
    /\ ~content[r].json
    /\ pc' = Upd(pc, r, "fetch_call")
    /\ UNCHANGED <<config, now_pht, prompt, content, data, html_report, msg, attempt,
                   server, e, delay, err, log, open, nsess, trace>>

\* line 141-142: json.loads raises on a string that is not JSON.
ParseRaises(r) ==
    /\ pc[r] = "fetch_parse"
    /\ ~content[r].json
    /\ e' = Upd(e, r, Exc("JSONDecodeError", "json_loads", 0))
    /\ pc' = Upd(pc, r, "fetch_except")
    /\ UNCHANGED <<config, now_pht, prompt, content, data, html_report, msg, attempt,
                   server, delay, err, log, open, nsess, trace>>

\* A handler that logs the error and returns an empty document instead of
\* raising.
FetchExceptSwallows(r) ==
    /\ pc[r] = "fetch_except"
    /\ Logged(r, LogRec("ERROR", "OpenAI API error", 0, 0))
    /\ data' = Upd(data, r, Doc(<<>>, <<>>, FALSE))
    /\ e' = Upd(e, r, NoError)
    /\ pc' = Upd(pc, r, "Fetched")
    /\ UNCHANGED <<config, now_pht, prompt, content, html_report, msg, attempt,
                   server, delay, err, open, nsess, trace>>

\* lines 142-144: the handler logs the error and raises RuntimeError, which
\* nothing in daily_job catches.  Raised inside the handler, it has the
\* handled exception as its context.
FetchExcept(r) ==
    /\ pc[r] = "fetch_except"
    /\ Logged(r, LogRec("ERROR", "OpenAI API error", 0, 0))
    /\ err' = Upd(err, r, [kind |-> "RuntimeError",
                           text |-> "Failed to fetch dynamic data.",
                           context |-> e[r]])
    /\ e' = Upd(e, r, NoError)
    /\ pc' = Upd(pc, r, "Failed")
    /\ UNCHANGED <<config, now_pht, prompt, content, data, html_report, msg, attempt,
                   server, delay, open, nsess, trace>>

\* ------------------------------------------------------------------------
\* The report (daily_job, lines 226-229)
\* ------------------------------------------------------------------------

\* template.render(data): the HTML document, which shows the fields of data.
render(d) == [html |-> d]

\* lines 226-229 return: the template is found and renders data.
RenderReturns(r) ==
    /\ pc[r] = "Fetched"
    /\ html_report' = Upd(html_report, r, render(data[r]))
    /\ Emit(r, Ev("render", 0, 0, TRUE, 0))
    /\ pc' = Upd(pc, r, "Rendered")
    /\ UNCHANGED <<config, now_pht, prompt, content, data, msg, attempt, server, e,
                   delay, err, log, open, nsess>>

\* lines 228-229 raise (TemplateNotFound, UndefinedError, a filter's
\* TypeError): nothing in daily_job catches it.
RenderRaises(r) ==
    /\ pc[r] = "Fetched"
    /\ Emit(r, Ev("render", 0, 0, FALSE, 0))
    /\ err' = Upd(err, r, [kind |-> "TemplateError",
                           text |-> "render",
                           context |-> NoError])
    /\ pc' = Upd(pc, r, "Failed")
    /\ UNCHANGED <<config, now_pht, prompt, content, data, html_report, msg, attempt,
                   server, e, delay, log, open, nsess>>

\* ------------------------------------------------------------------------
\* send_email
\* ------------------------------------------------------------------------

\* line 232: the subject line carries the date.
Subject(now) == <<"Daily Market Briefing", now>>

\* lines 194-197: the MIME message.
Message(subject, body) ==
    [Subject |-> subject, From |-> EMAIL_USER, To |-> EMAIL_TO, body |-> body]

\* delay = 2 * attempt: a linear backoff.
BackoffLinear(a) == 2 * a

\* line 208: delay = 2 ** attempt
Backoff(a) == 2 ^ a

\* lines 232-233, 194-199: the message is built once, the loop starts.
SendBegin(r) ==
    /\ pc[r] = "Rendered"
    /\ msg' = Upd(msg, r, Message(Subject(now_pht[r]), html_report[r]))
    /\ attempt' = Upd(attempt, r, 0)
    /\ pc' = Upd(pc, r, "send_connect")
    /\ UNCHANGED <<config, now_pht, prompt, content, data, html_report, server, e,
                   delay, err, log, open, nsess, trace>>

\* line 201: smtplib.SMTP(...) connects and returns a new session.
ConnectReturns(r) ==
    /\ pc[r] = "send_connect"
    /\ nsess' = Upd(nsess, r, nsess[r] + 1)
    /\ server' = Upd(server, r, nsess[r] + 1)
    /\ open' = Upd(open, r, open[r] \cup {nsess[r] + 1})
    /\ Emit(r, Ev("connect", attempt[r] + 1, nsess[r] + 1, TRUE, 0))
    /\ pc' = Upd(pc, r, "send_starttls")
    /\ UNCHANGED <<config, now_pht, prompt, content, data, html_report, msg, attempt,
                   e, delay, err, log>>

\* line 201: smtplib.SMTP(...) raises; no session exists.
ConnectRaises(r) ==
    /\ pc[r] = "send_connect"
    /\ Emit(r, Ev("connect", attempt[r] + 1, 0, FALSE, 0))
    /\ e' = Upd(e, r, Exc("SMTPException", "connect", attempt[r] + 1))
    /\ pc' = Upd(pc, r, "send_except")
    /\ UNCHANGED <<config, now_pht, prompt, content, data, html_report, msg, attempt,
                   server, delay, err, log, open, nsess>>

\* One call on the session inside the with block returns.
BodyReturns(r, at, call, next) ==
    /\ pc[r] = at
    /\ Emit(r, Ev(call, attempt[r] + 1, server[r], TRUE, 0))
    /\ pc' = Upd(pc, r, next)
    /\ UNCHANGED <<config, now_pht, prompt, content, data, html_report, msg, attempt,
                   server, e, delay, err, log, open, nsess>>

\* One call on the session inside the with block raises: the with
\* statement's __exit__ runs next, with the exception in flight.
BodyRaises(r, at, call) ==
    /\ pc[r] = at
    /\ Emit(r, Ev(call, attempt[r] + 1, server[r], FALSE, 0))
    /\ e' = Upd(e, r, Exc("SMTPException", call, attempt[r] + 1))
    /\ pc' = Upd(pc, r, "send_exit_exc")
    /\ UNCHANGED <<config, now_pht, prompt, content, data, html_report, msg, attempt,
                   server, delay, err, log, open, nsess>>

\* line 202
StartTlsReturns(r) == BodyReturns(r, "send_starttls", "starttls", "send_login")

StartTlsRaises(r) == BodyRaises(r, "send_starttls", "starttls")

\* line 203
LoginReturns(r) == BodyReturns(r, "send_login", "login", "send_sendmail")

LoginRaises(r) == BodyRaises(r, "send_login", "login")

\* line 204: sendmail returns once the server has accepted the message.
SendmailReturns(r) == BodyReturns(r, "send_sendmail", "sendmail", "send_exit")

SendmailRaises(r) == BodyRaises(r, "send_sendmail", "sendmail")

\* line 201, leaving the with block normally: SMTP.__exit__ sends QUIT, gets
\* 221 and closes the session.
ExitReturns(r) ==
    /\ pc[r] = "send_exit"
    /\ open' = Upd(open, r, open[r] \ {server[r]})
    /\ Emit(r, Ev("close", attempt[r] + 1, server[r], TRUE, 0))
    /\ pc' = Upd(pc, r, "send_log_ok")
    /\ UNCHANGED <<config, now_pht, prompt, content, data, html_report, msg, attempt,
                   server, e, delay, err, log, nsess>>

\* line 201, leaving the with block normally: the reply to QUIT is not 221,
\* so SMTP.__exit__ raises SMTPResponseException after closing the session
\* (its finally clause).
ExitRaises(r) ==
    /\ pc[r] = "send_exit"
    /\ open' = Upd(open, r, open[r] \ {server[r]})
    /\ Emit(r, Ev("close", attempt[r] + 1, server[r], FALSE, 0))
    /\ e' = Upd(e, r, Exc("SMTPResponseException", "close", attempt[r] + 1))
    /\ pc' = Upd(pc, r, "send_except")
    /\ UNCHANGED <<config, now_pht, prompt, content, data, html_report, msg, attempt,
                   server, delay, err, log, nsess>>

\* A session that is closed on the success path only (no with statement):
\* an exception in the block leaves it connected.
ExitOnExceptionLeaks(r) ==
    /\ pc[r] = "send_exit_exc"
    /\ pc' = Upd(pc, r, "send_except")
    /\ UNCHANGED <<config, now_pht, prompt, content, data, html_report, msg, attempt,
                   server, e, delay, err, log, open, nsess, trace>>

\* line 201, leaving the with block on an exception: SMTP.__exit__ closes
\* the session and the exception of the block goes on to the except clause.
\* (Should QUIT be refused here, the SMTPResponseException takes the place
\* of the block's exception; the handler treats either the same way.)
ExitOnException(r) ==
    /\ pc[r] = "send_exit_exc"
    /\ open' = Upd(open, r, open[r] \ {server[r]})
    /\ Emit(r, Ev("close", attempt[r] + 1, server[r], TRUE, 0))
    /\ pc' = Upd(pc, r, "send_except")
    /\ UNCHANGED <<config, now_pht, prompt, content, data, html_report, msg, attempt,
                   server, e, delay, err, log, nsess>>

\* lines 205-206: the success record; send_email and daily_job return.
SendLogOk(r) ==
    /\ pc[r] = "send_log_ok"
    /\ Logged(r, LogRec("INFO", "Email sent successfully.", 0, 0))
    /\ pc' = Upd(pc, r, "Delivered")
    /\ UNCHANGED <<config, now_pht, prompt, content, data, html_report, msg, attempt,
                   server, e, delay, err, open, nsess, trace>>

\* A handler that rebuilds the message for the retry, with the attempt in
\* its subject.
SendExceptRebuildsMessage(r) ==
    /\ pc[r] = "send_except"
    /\ delay' = Upd(delay, r, Backoff(attempt[r]))
    /\ Logged(r, LogRec("WARNING", "Email send failed. Retrying",
                        attempt[r] + 1, Backoff(attempt[r])))
    /\ msg' = Upd(msg, r, Message(<<msg[r].Subject, attempt[r] + 1>>,
                                  msg[r].body))
    /\ pc' = Upd(pc, r, "send_sleep")
    /\ UNCHANGED <<config, now_pht, prompt, content, data, html_report,
                   attempt, server, e, err, open, nsess, trace>>

\* lines 207-209: the handler computes the delay and logs a warning.
SendExcept(r) ==
    /\ pc[r] = "send_except"
    /\ delay' = Upd(delay, r, Backoff(attempt[r]))
    /\ Logged(r, LogRec("WARNING", "Email send failed. Retrying",
                        attempt[r] + 1, Backoff(attempt[r])))
    /\ pc' = Upd(pc, r, "send_sleep")
    /\ UNCHANGED <<config, now_pht, prompt, content, data, html_report, msg, attempt,
                   server, e, err, open, nsess, trace>>

\* A loop counter shared by the runs: ending a sleep advances every run's
\* counter.
SendSleepSharedCounter(r) ==
    /\ pc[r] = "send_sleep"
    /\ Emit(r, Ev("sleep", attempt[r] + 1, 0, TRUE, delay[r]))
    /\ e' = Upd(e, r, NoError)
    /\ IF attempt[r] + 1 < MaxAttempts
          THEN /\ attempt' = [q \in DOMAIN attempt |-> attempt[r] + 1]
               /\ pc' = Upd(pc, r, "send_connect")
          ELSE /\ attempt' = attempt
               /\ pc' = Upd(pc, r, "send_raise")
    /\ UNCHANGED <<config, now_pht, prompt, content, data, html_report, msg,
                   server, delay, err, log, open, nsess>>

\* line 210, then line 199: time.sleep(delay); leaving the handler unbinds
\* e; the loop takes the next value of range(5) or ends.
SendSleep(r) ==
    /\ pc[r] = "send_sleep"
    /\ Emit(r, Ev("sleep", attempt[r] + 1, 0, TRUE, delay[r]))
    /\ e' = Upd(e, r, NoError)
    /\ IF attempt[r] + 1 < MaxAttempts
          THEN /\ attempt' = Upd(attempt, r, attempt[r] + 1)
               /\ pc' = Upd(pc, r, "send_connect")
          ELSE /\ attempt' = attempt
               /\ pc' = Upd(pc, r, "send_raise")
    /\ UNCHANGED <<config, now_pht, prompt, content, data, html_report, msg, server,
                   delay, err, log, open, nsess>>

\* A send_email that returns after its last attempt instead of raising.
SendRaiseSwallowed(r) ==
    /\ pc[r] = "send_raise"
    /\ pc' = Upd(pc, r, "Delivered")
    /\ UNCHANGED <<config, now_pht, prompt, content, data, html_report, msg, attempt,
                   server, e, delay, err, log, open, nsess, trace>>

\* line 211: raised after the loop, outside any handler: its context is the
\* exception being handled, and none is (the handler unbound e).
SendRaise(r) ==
    /\ pc[r] = "send_raise"
    /\ err' = Upd(err, r, [kind |-> "RuntimeError",
                           text |-> "Failed to send email after retries.",
                           context |-> e[r]])
    /\ pc' = Upd(pc, r, "Failed")
    /\ UNCHANGED <<config, now_pht, prompt, content, data, html_report, msg, attempt,
                   server, e, delay, log, open, nsess, trace>>

\* ------------------------------------------------------------------------
\* Specification
\* ------------------------------------------------------------------------

Next ==
    \/ \E r \in DOMAIN pc : BuildPrompt(r)
    \/ \E r \in DOMAIN pc : FetchBegin(r)
    \/ \E r \in DOMAIN pc : ModelCallReturns(r)
    \/ \E r \in DOMAIN pc : ModelCallRaises(r)
    \/ \E r \in DOMAIN pc : ParseReturns(r)
    \/ \E r \in DOMAIN pc : ParseRaises(r)
    \/ \E r \in DOMAIN pc : FetchExcept(r)
    \/ \E r \in DOMAIN pc : RenderReturns(r)
    \/ \E r \in DOMAIN pc : RenderRaises(r)
    \/ \E r \in DOMAIN pc : SendBegin(r)
    \/ \E r \in DOMAIN pc : ConnectReturns(r)
    \/ \E r \in DOMAIN pc : ConnectRaises(r)
    \/ \E r \in DOMAIN pc : StartTlsReturns(r)
    \/ \E r \in DOMAIN pc : StartTlsRaises(r)
    \/ \E r \in DOMAIN pc : LoginReturns(r)
    \/ \E r \in DOMAIN pc : LoginRaises(r)
    \/ \E r \in DOMAIN pc : SendmailReturns(r)
    \/ \E r \in DOMAIN pc : SendmailRaises(r)
    \/ \E r \in DOMAIN pc : ExitReturns(r)
    \/ \E r \in DOMAIN pc : ExitRaises(r)
    \/ \E r \in DOMAIN pc : ExitOnException(r)
    \/ \E r \in DOMAIN pc : SendLogOk(r)
    \/ \E r \in DOMAIN pc : SendExcept(r)
    \/ \E r \in DOMAIN pc : SendSleep(r)
    \/ \E r \in DOMAIN pc : SendRaise(r)

Spec == Init /\ [][Next]_vars

\* The process from its start: the checks of the configuration, then the
\* run.
NextStartup ==
    \/ \E r \in DOMAIN pc : RequireEnvReturns(r)
    \/ \E r \in DOMAIN pc : RequireEnvRaises(r)
    \/ Next

SpecStartup == InitStartup /\ [][NextStartup]_vars

\* Two processes started side by side, each past its startup checks.
Runs2 == {"run1", "run2"}

InitOverlap == InitFor(Runs2)

\* The steps of overlapping runs, in any interleaving.  To keep the product
\* of the two runs small the transport here fails in one way only, by
\* refusing the connection; every other step is as in Next.
NextOverlap ==
    \/ \E r \in DOMAIN pc : BuildPrompt(r)
    \/ \E r \in DOMAIN pc : FetchBegin(r)
    \/ \E r \in DOMAIN pc : ModelCallReturns(r)
    \/ \E r \in DOMAIN pc : ModelCallRaises(r)
    \/ \E r \in DOMAIN pc : ParseReturns(r)
    \/ \E r \in DOMAIN pc : ParseRaises(r)
    \/ \E r \in DOMAIN pc : FetchExcept(r)
    \/ \E r \in DOMAIN pc : RenderReturns(r)
    \/ \E r \in DOMAIN pc : RenderRaises(r)
    \/ \E r \in DOMAIN pc : SendBegin(r)
    \/ \E r \in DOMAIN pc : ConnectReturns(r)
    \/ \E r \in DOMAIN pc : ConnectRaises(r)
    \/ \E r \in DOMAIN pc : StartTlsReturns(r)
    \/ \E r \in DOMAIN pc : LoginReturns(r)
    \/ \E r \in DOMAIN pc : SendmailReturns(r)
    \/ \E r \in DOMAIN pc : ExitReturns(r)
    \/ \E r \in DOMAIN pc : SendLogOk(r)
    \/ \E r \in DOMAIN pc : SendExcept(r)
    \/ \E r \in DOMAIN pc : SendSleep(r)
    \/ \E r \in DOMAIN pc : SendRaise(r)

SpecOverlap == InitOverlap /\ [][NextOverlap]_vars

\* Every external call returns or raises, and the interpreter runs the
\* single thread of a run on: no step that is enabled is put off forever.
FairSpec == Spec /\ WF_vars(Next)

\* ------------------------------------------------------------------------
\* What a run has done, read from its state
\* ------------------------------------------------------------------------

Terminal == {"Delivered", "Failed"}

\* The orchestrator's state: the last stage the run has completed.
State(r) ==
    CASE pc[r] = "Idle" -> "Idle"
      [] pc[r] \in {"PromptBuilt", "fetch_call", "fetch_parse", "fetch_except"}
            -> "PromptBuilt"
      [] pc[r] = "Fetched" -> "Fetched"
      [] pc[r] \in Terminal \cup {"Startup", "ConfigError"} -> pc[r]
      [] OTHER -> "Rendered"

\* The positions of the trace that hold a call of the given name.
Events(r, name) == {i \in DOMAIN trace[r] : trace[r][i].ev = name}

\* The calls made on an SMTP session.
SessionCalls == {"starttls", "login", "sendmail", "close"}

\* The stage a call belongs to: 1 build prompt, 2 fetch, 3 render, 4 send.
StageOf(name) ==
    CASE name = "build_prompt" -> 1
      [] name = "model_call" -> 2
      [] name = "render" -> 3
      [] OTHER -> 4

\* A delivery attempt starts with the call of smtplib.SMTP.
NumAttempts(r) == Cardinality(Events(r, "connect"))

\* The completed transmits of the report.
Transmits(r) == {i \in Events(r, "sendmail") : trace[r][i].ok}

\* Attempt n went through: the message was accepted and the session closed
\* without an exception.
AttemptOk(r, n) ==
    /\ \E i \in Transmits(r) : trace[r][i].n = n
    /\ \E i \in Events(r, "close") : trace[r][i].n = n /\ trace[r][i].ok

\* Attempt n raised.
AttemptFailed(r, n) ==
    \E i \in DOMAIN trace[r] :
        /\ trace[r][i].n = n
        /\ trace[r][i].ev \in {"connect"} \cup SessionCalls
        /\ ~trace[r][i].ok

\* The durations slept, in order.
Waits(r) ==
    LET IsSleep(x) == x.ev = "sleep"
        sl == SelectSeq(trace[r], IsSleep)
    IN  [i \in 1..Len(sl) |-> sl[i].d]

\* The run ended with send_email's error (the spec's DeliveryExhaustedError).
Exhausted(r) ==
    /\ pc[r] = "Failed"
    /\ err[r].kind = "RuntimeError"
    /\ err[r].text = "Failed to send email after retries."

\* The run ended with get_market_briefing_data's error.
FetchFailed(r) ==
    /\ pc[r] = "Failed"
    /\ err[r].kind = "RuntimeError"
    /\ err[r].text = "Failed to fetch dynamic data."

\* ------------------------------------------------------------------------
\* C1
\* ------------------------------------------------------------------------

\* C1: the external calls of a run come in the order build prompt, fetch,
\* render, send, each of the first three at most once; a failed model call
\* or render is the last call of the run and leaves it in its handler or in
\* Failed; a run that failed in fetch has neither rendered nor opened a
\* session, one that failed in render has opened none; and every delivery
\* attempt comes after a model call and a render that returned.
C1_StagesInOrder ==
    \A r \in DOMAIN pc :
        LET t == trace[r] IN
        /\ \A i \in 1..(Len(t) - 1) :
              StageOf(t[i].ev) <= StageOf(t[i + 1].ev)
        /\ \A name \in {"build_prompt", "model_call", "render"} :
              Cardinality(Events(r, name)) <= 1
        /\ \A i \in Events(r, "model_call") \cup Events(r, "render") :
              ~t[i].ok => /\ i = Len(t)
                          /\ pc[r] \in {"fetch_except", "Failed"}
        /\ (pc[r] = "fetch_except" \/ FetchFailed(r)) =>
              /\ Events(r, "render") = {}
              /\ Events(r, "connect") = {}
              /\ html_report[r] = None
        /\ (pc[r] = "Failed" /\ err[r].kind = "TemplateError") =>
              /\ Events(r, "connect") = {}
              /\ html_report[r] = None
        /\ \A i \in Events(r, "connect") :
              /\ \E j \in Events(r, "model_call") : j < i /\ t[j].ok
              /\ \E j \in Events(r, "render") : j < i /\ t[j].ok
              /\ data[r] # None
              /\ html_report[r] # None
        /\ State(r) \in {"Rendered", "Delivered"} => html_report[r] # None
        /\ State(r) = "Fetched" => data[r] # None

\* A run whose fetch returned and whose render raised: Failed, no attempt.
C1_Witness ==
    \E r \in DOMAIN pc :
        /\ pc[r] = "Failed"
        /\ err[r].kind = "TemplateError"
        /\ \E i \in Events(r, "model_call") : trace[r][i].ok
        /\ NumAttempts(r) = 0

\* ------------------------------------------------------------------------
\* C2
\* ------------------------------------------------------------------------

\* C2: a run makes at most 5 delivery attempts; a run that ended with
\* send_email's error made exactly 5, none of which went through; and a
\* finished run whose attempts all failed ended with that error.
C2_AtMostFiveAttempts ==
    \A r \in DOMAIN pc :
        /\ NumAttempts(r) <= 5
        /\ Exhausted(r) =>
              /\ NumAttempts(r) = 5
              /\ \A n \in 1..5 : AttemptFailed(r, n) /\ ~AttemptOk(r, n)
        /\ ( /\ pc[r] \in Terminal
             /\ NumAttempts(r) > 0
             /\ \A n \in 1..NumAttempts(r) : ~AttemptOk(r, n) )
           => Exhausted(r) /\ NumAttempts(r) = 5

\* Five attempts failed and send_email raised.
C2_Witness ==
    \E r \in DOMAIN pc : Exhausted(r) /\ NumAttempts(r) = 5

\* ------------------------------------------------------------------------
\* C3
\* ------------------------------------------------------------------------

\* The sleep after failed attempt n lies after every other call of attempt n
\* and before every call of attempt n + 1.
WaitBetween(r, n) ==
    \E i \in Events(r, "sleep") :
        /\ trace[r][i].n = n
        /\ \A j \in DOMAIN trace[r] :
              /\ (trace[r][j].n = n /\ j # i) => j < i
              /\ trace[r][j].n = n + 1 => i < j

\* C3: for k in 0..4, once the first k attempts have failed and attempt
\* k + 1 has gone through, send_email is returning (or has returned) after
\* exactly k + 1 attempts and exactly k sleeps of 2^0, ..., 2^(k-1), the
\* i-th of them between attempt i and attempt i + 1.
C3_BackoffSchedule ==
    \A r \in DOMAIN pc :
        \A k \in 0..4 :
            ( /\ \A n \in 1..k : AttemptFailed(r, n)
              /\ AttemptOk(r, k + 1) )
            => /\ pc[r] \in {"send_log_ok", "Delivered"}
               /\ NumAttempts(r) = k + 1
               /\ Waits(r) = [i \in 1..k |-> 2 ^ (i - 1)]
               /\ \A n \in 1..k : WaitBetween(r, n)

\* Four failures, then success: the waits were 1, 2, 4, 8.
C3_Witness ==
    \E r \in DOMAIN pc :
        /\ pc[r] = "Delivered"
        /\ NumAttempts(r) = 5
        /\ Waits(r) = <<1, 2, 4, 8>>

\* ------------------------------------------------------------------------
\* C4
\* ------------------------------------------------------------------------

\* The response parses as JSON and names a ticker outside the configured
\* watchlist universe or outside the configured open positions.
ForeignTickerResponse(r) ==
    /\ content[r] # None
    /\ content[r].json
    /\ ~TickersInUniverse(content[r].doc)

\* C4: a run whose model response names a foreign ticker never renders,
\* never makes a delivery attempt, and can only end in Failed with a
\* SchemaViolation.
C4_ForeignTickerRejected ==
    \A r \in DOMAIN pc :
        ForeignTickerResponse(r) =>
            /\ Events(r, "render") = {}
            /\ html_report[r] = None
            /\ NumAttempts(r) = 0
            /\ pc[r] \in Terminal =>
                  pc[r] = "Failed" /\ err[r].kind = "SchemaViolation"

\* ------------------------------------------------------------------------
\* C5
\* ------------------------------------------------------------------------

\* C5: in a Failed run no session has completed a transmit of the report.
C5_NoEmailOnFailure ==
    \A r \in DOMAIN pc : pc[r] = "Failed" => Transmits(r) = {}

\* ------------------------------------------------------------------------
\* C6
\* ------------------------------------------------------------------------

\* C6: a run makes at most one model call; when that call raised, or its
\* response did not parse, the run is in the fetcher's handler or Failed,
\* having made that one call and no call after it.
C6_FetchNeverRetries ==
    \A r \in DOMAIN pc :
        LET calls == Events(r, "model_call") IN
        /\ Cardinality(calls) <= 1
        /\ \A i \in calls :
              ~trace[r][i].ok =>
                  /\ pc[r] \in {"fetch_except", "Failed"}
                  /\ i = Len(trace[r])
        /\ (pc[r] = "fetch_except" \/ FetchFailed(r)) =>
              /\ Cardinality(calls) = 1
              /\ \A i \in calls : i = Len(trace[r])
        /\ (pc[r] = "Failed" /\ \E i \in calls : ~trace[r][i].ok) =>
              FetchFailed(r)

\* The model call raised and the run is Failed after that single call.
C6_Witness ==
    \E r \in DOMAIN pc :
        /\ FetchFailed(r)
        /\ \E i \in Events(r, "model_call") : ~trace[r][i].ok
        /\ err[r].context.kind = "APIError"

\* ------------------------------------------------------------------------
\* C7
\* ------------------------------------------------------------------------

\* The positions at which no SMTP session of the run may be connected:
\* before the first attempt, in the except clause and its sleep, and once
\* send_email has returned or raised.
NoSessionAt ==
    {"Idle", "PromptBuilt", "fetch_call", "fetch_parse", "fetch_except",
     "Fetched", "Rendered", "send_connect", "send_log_ok", "send_except",
     "send_sleep", "send_raise", "Delivered", "Failed"}

\* The call that must have returned on the same session before this one.
Before(name) ==
    CASE name = "starttls" -> "connect"
      [] name = "login" -> "starttls"
      [] name = "sendmail" -> "login"
      [] OTHER -> "connect"

\* C7: at most one session of a run is connected at any time, and none
\* between attempts or after send_email; every connect that returns gives a
\* session no earlier attempt had; every call on a session is made in the
\* attempt that connected it, after the call that precedes it in connect,
\* starttls, login, sendmail returned on that session in that attempt, and
\* before that session's close; each session is closed once.
C7_FreshSessionPerAttempt ==
    \A r \in DOMAIN pc :
        LET t == trace[r] IN
        /\ Cardinality(open[r]) <= 1
        /\ pc[r] \in NoSessionAt => open[r] = {}
        /\ \A i, j \in Events(r, "connect") :
              (t[i].ok /\ t[j].ok /\ i # j) =>
                  t[i].s # t[j].s /\ t[i].n # t[j].n
        /\ \A i \in DOMAIN t :
              t[i].ev \in SessionCalls =>
                  /\ t[i].s # 0
                  /\ \E j \in Events(r, Before(t[i].ev)) :
                        /\ j < i
                        /\ t[j].ok
                        /\ t[j].s = t[i].s
                        /\ t[j].n = t[i].n
                  /\ \A j \in Events(r, "close") :
                        (t[j].s = t[i].s /\ j # i) =>
                            i < j /\ t[i].ev # "close"
        /\ \A i \in Events(r, "connect") :
              (t[i].ok /\ t[i].s \notin open[r]) =>
                  \E j \in Events(r, "close") : t[j].s = t[i].s

\* A second attempt transmitted on a second session, the first one closed.
C7_Witness ==
    \E r \in DOMAIN pc :
        /\ pc[r] = "Delivered"
        /\ nsess[r] = 2
        /\ \E i \in Transmits(r) : trace[r][i].s = 2 /\ trace[r][i].n = 3

\* ------------------------------------------------------------------------
\* C8
\* ------------------------------------------------------------------------

\* C8: the error send_email ends with after its 5 attempts carries the
\* exception the 5th attempt raised.
C8_ExhaustedCarriesLastError ==
    \A r \in DOMAIN pc :
        Exhausted(r) =>
            \E i \in DOMAIN trace[r] :
                /\ trace[r][i].n = 5
                /\ ~trace[r][i].ok
                /\ err[r].context.n = 5
                /\ err[r].context.at = trace[r][i].ev

\* ------------------------------------------------------------------------
\* C9
\* ------------------------------------------------------------------------

\* The success records of send_email.
SuccessRecords(r) ==
    {i \in DOMAIN log[r] : log[r][i].text = "Email sent successfully."}

\* The records of send_email that report its permanent failure: the error
\* records other than the fetcher's.  (A warning announces a retry.)
PermanentFailureRecords(r) ==
    {i \in DOMAIN log[r] :
        /\ log[r][i].level \in {"ERROR", "CRITICAL"}
        /\ log[r][i].text # "OpenAI API error"}

\* C9: a call of send_email that returned logged one success record and no
\* permanent-failure record; one that raised logged one permanent-failure
\* record and no success record.
C9_OutcomeLoggedOnce ==
    \A r \in DOMAIN pc :
        /\ pc[r] = "Delivered" =>
              /\ Cardinality(SuccessRecords(r)) = 1
              /\ PermanentFailureRecords(r) = {}
        /\ Exhausted(r) =>
              /\ Cardinality(PermanentFailureRecords(r)) = 1
              /\ SuccessRecords(r) = {}

\* ------------------------------------------------------------------------
\* C10
\* ------------------------------------------------------------------------

\* Some delivery attempt of the run went through.
Delivered(r) == \E n \in 1..MaxAttempts : AttemptOk(r, n)

\* C10: under FairSpec every run reaches Delivered or Failed; a run in a
\* terminal state takes no further step; a finished run is Delivered
\* exactly when one of its delivery attempts went through, and an attempt
\* that went through (the first one in particular) leads to Delivered.
C10_RunTerminates ==
    /\ \A r \in Runs : <>(pc[r] \in Terminal)
    /\ \A r \in Runs : (AttemptOk(r, 1) ~> pc[r] = "Delivered")
    /\ \A r \in Runs : (Delivered(r) ~> pc[r] = "Delivered")
    /\ [](\A r \in Runs :
             pc[r] \in Terminal => (pc[r] = "Delivered" <=> Delivered(r)))
    /\ [][\A r \in Runs :
             pc[r] \in Terminal =>
                 /\ pc'[r] = pc[r]
                 /\ trace'[r] = trace[r]
                 /\ log'[r] = log[r]
                 /\ err'[r] = err[r]
                 /\ open'[r] = open[r]]_vars

\* The transport accepted the first attempt and the run is Delivered.
C10_Witness ==
    \E r \in DOMAIN pc :
        /\ pc[r] = "Delivered"
        /\ NumAttempts(r) = 1
        /\ AttemptOk(r, 1)

\* ------------------------------------------------------------------------
\* C14
\* ------------------------------------------------------------------------

\* Some required variable is unset or empty.
ConfigIncomplete(c) ==
    \E i \in DOMAIN RequiredEnv :
        c[RequiredEnv[i]] = Unset \/ c[RequiredEnv[i]] = Present("")

\* C14: a process whose required configuration is incomplete stays at its
\* start or ends there with the error naming the first missing variable: it
\* never reaches daily_job, makes no external call and opens no session.
C14_ConfigCheckedAtStartup ==
    \A r \in DOMAIN pc :
        ConfigIncomplete(config[r]) =>
            /\ pc[r] \in {"Startup", "ConfigError"}
            /\ trace[r] = <<>>
            /\ nsess[r] = 0
            /\ log[r] = <<>>
            /\ pc[r] = "ConfigError" =>
                  /\ err[r].kind = "RuntimeError"
                  /\ config[r][err[r].var] \in {Unset, Present("")}

\* The sender identity is set but empty, the rest is set: the process ended
\* at startup.
C14_Witness ==
    \E r \in DOMAIN pc :
        /\ pc[r] = "ConfigError"
        /\ config[r].OPENAI_API_KEY = Present("key")
        /\ config[r].EMAIL_USER = Present("")
        /\ err[r].var = "EMAIL_USER"

\* ------------------------------------------------------------------------
\* C11
\* ------------------------------------------------------------------------

\* The response parses as JSON and lacks the required key "reminders".
MissingFieldResponse(r) ==
    /\ content[r] # None
    /\ content[r].json
    /\ ~content[r].doc.reminders

\* C11: a run whose model response lacks a required field never hands the
\* document on (data stays unbound), never renders, never makes a delivery
\* attempt, and can only end in Failed with a SchemaViolation naming the
\* field.
C11_MissingFieldRejected ==
    \A r \in DOMAIN pc :
        MissingFieldResponse(r) =>
            /\ data[r] = None
            /\ Events(r, "render") = {}
            /\ html_report[r] = None
            /\ NumAttempts(r) = 0
            /\ pc[r] \in Terminal =>
                  /\ pc[r] = "Failed"
                  /\ err[r].kind = "SchemaViolation"
                  /\ err[r].text = "reminders"

\* ------------------------------------------------------------------------
\* C16
\* ------------------------------------------------------------------------

\* C16: a run completes the transmit of the report at most once.
C16_AtMostOneTransmit ==
    \A r \in DOMAIN pc : Cardinality(Transmits(r)) <= 1

\* ------------------------------------------------------------------------
\* C17
\* ------------------------------------------------------------------------

\* C17: no sleep follows the 5th attempt, and once send_email has left its
\* loop every sleep of the run was followed by a further delivery attempt.
C17_WaitPrecedesRetry ==
    \A r \in DOMAIN pc :
        /\ \A i \in Events(r, "sleep") : trace[r][i].n < 5
        /\ pc[r] \in {"send_raise", "Delivered", "Failed"} =>
              \A i \in Events(r, "sleep") :
                  \E j \in Events(r, "connect") : i < j

\* ------------------------------------------------------------------------
\* C13
\* ------------------------------------------------------------------------

\* Everything a run holds.
RunState(r) ==
    <<pc[r], config[r], now_pht[r], prompt[r], content[r], data[r],
      html_report[r], msg[r], attempt[r], server[r], e[r], delay[r], err[r],
      log[r], open[r], nsess[r], trace[r]>>

\* What the outside world gave a run: the time, the model's response, and
\* for each external call in turn whether it returned or raised.
Outcomes(r) ==
    <<now_pht[r], content[r], [i \in DOMAIN trace[r] |-> trace[r][i].ok]>>

\* The positions inside the loop of send_email.
InSendLoop ==
    {"send_connect", "send_starttls", "send_login", "send_sendmail",
     "send_exit", "send_exit_exc", "send_log_ok", "send_except", "send_sleep"}

FailedInFetch(r) == pc[r] = "Failed" /\ Events(r, "render") = {}

\* Why the fetch failed: the call raised, or the response was not JSON.
FetchCause(r) ==
    IF \E i \in Events(r, "model_call") : ~trace[r][i].ok
        THEN "call failed"
        ELSE IF content[r] # None /\ ~content[r].json
            THEN "not JSON"
            ELSE "other"

\* C12: two runs whose fetch failed for different causes ended with errors
\* of different kinds.
C12_ErrorKindIdentifiesCause ==
    \A r1, r2 \in DOMAIN pc :
        ( /\ FailedInFetch(r1)
          /\ FailedInFetch(r2)
          /\ FetchCause(r1) # FetchCause(r2) )
        => err[r1].kind # err[r2].kind

\* ------------------------------------------------------------------------
\* C15
\* ------------------------------------------------------------------------

C18_MessageUnchangedByRetry ==
    /\ [][\A r \in Runs :
             pc[r] \in InSendLoop \cup {"send_raise"} =>
                 /\ msg'[r] = msg[r]
                 /\ html_report'[r] = html_report[r]
                 /\ config'[r] = config[r]]_vars
    /\ [](\A r \in Runs :
             pc[r] \in InSendLoop \cup {"send_raise"} =>
                 /\ msg[r] = Message(Subject(now_pht[r]), html_report[r])
                 /\ msg[r].From = config[r].EMAIL_USER.value
                 /\ msg[r].To = EMAIL_TO)

\* The third attempt is about to transmit the message built before the
\* first.
C18_Witness ==
    \E r \in DOMAIN pc :
        /\ pc[r] = "send_sendmail"
        /\ attempt[r] = 2
        /\ Len(Waits(r)) = 2
        /\ msg[r] = Message(Subject(now_pht[r]), html_report[r])

=============================================================================
